---- MODULE Spec2Model ----
(***************************************************************************)
(* A model of the RedditFlow extraction pipeline:                          *)
(*   src/src/reddit/etl/extractor.py  RateLimiter, CheckpointManager,      *)
(*                                    RedditExtractor                      *)
(*   src/src/reddit/etl/loader.py     MongoLoader                          *)
(*   src/src/reddit/main.py           run_etl_pipeline                     *)
(* Time is counted in whole seconds.  The module holds several             *)
(* specifications over one set of variables; each one moves only the       *)
(* variables of the component it is about.                                 *)
(***************************************************************************)
EXTENDS Integers, Sequences, FiniteSets, TLC

VARIABLES
    \* the wall clock (datetime.now()), in seconds
    now,
    \* RateLimiter: rpm, requests, total_requests; issued is the history of
    \* the instants at which wait_if_needed returned
    rpm, requests, total_requests, issued,
    \* RedditExtractor.stats
    stats,
    \* one _api_call_with_retry invocation: where it stands (rpc), its
    \* max_retries, the loop variable attempt, what it returned (result);
    \* history of the invocation: the number of times func was invoked
    \* (func_calls), of failed attempts (failed), of those that were
    \* throttling signals (throttled), func's last outcome (last), the
    \* seconds of sleep requested so far (slept); ncalls counts invocations
    rpc, max_retries, attempt, result, func_calls, failed, throttled, last,
    slept, ncalls,
    \* the checkpoint file on disk (ckFile) and CheckpointManager.data of the
    \* live manager (ckData); history: the ids whose save returned since the
    \* last clear (savedIds), the last CheckpointManager call (ckLast)
    ckFile, ckData, savedIds, ckLast,
    \* run_etl_pipeline: where the run stands (pc; "idle" between runs), the
    \* number of runs started (run), the exit code of the last run; the
    \* locals of get_submissions (src, all_submissions) and of
    \* extract_posts_with_comments (idx, posts_data, comments_data);
    \* MongoLoader.stats and the two collections (store)
    pc, run, exit_code, src, all_submissions, idx, posts_data, comments_data,
    loader_stats, store,
    \* history of the runs: the ids get_submissions iterated in this run
    \* (encountered), stats.errors when get_submissions returned
    \* (errorsAtFetch), the positions of all_submissions whose field
    \* extraction failed (fieldFailed), whether anything else failed in the
    \* item loop (otherFail), the ids whose fields and comments were both
    \* extracted without a failure in some run (fullyDone)
    encountered, errorsAtFetch, fieldFailed, otherFail, fullyDone,
    \* more history of the runs: the number of sources that the
    \* get_submissions call in progress, or just returned, skipped because of
    \* a failure (failedSources), whether the run issued
    \* a remote call (apiCalled), how the last run ended, what it closed and
    \* whether it printed the summary (ended), whether the checkpoint was cleared and no
    \* save was begun since (cleared)
    failedSources, apiCalled, ended, cleared,
    \* _calculate_comment_depth and the comment loop of
    \* get_submission_comments: the parent lookup table built from the
    \* comment list of one item (comment_map), the last call and what it
    \* returned (dcall), the list get_submission_comments returned
    \* (all_comments)
    comment_map, dcall, all_comments,
    \* a MongoLoader on its own: its batch_size and stats (lstats), the
    \* documents of the posts and of the comments collection (collection);
    \* history: the last load call (lload: the length of its list, the
    \* number of its batches, of the bulk writes it issued, of the operations
    \* that failed in a partial failure, what it added to errors, whether a
    \* bulk write raised something else, the reddit_ids whose upsert was
    \* applied), the reddit_ids whose upsert was ever applied (loadedIds),
    \* the number of load calls (nloads)
    batch_size, lstats, collection, lload, loadedIds, nloads,
    \* the loop of extract_posts_with_comments step by step: history of the
    \* steps taken, in the order they were taken (events: the step, the
    \* position of its item in the fetched list, whether it succeeded)
    events,
    \* get_submission_comments under a configured MAX_COMMENT_DEPTH
    \* (max_depth); the comments of the list that have no body or that
    \* get_comment_data cannot convert (unconverted)
    max_depth, unconverted

rlVars == <<now, rpm, requests, total_requests, issued>>

retryVars == <<rpc, max_retries, attempt, result, func_calls, failed,
               throttled, last, slept, ncalls>>

ckVars == <<ckFile, ckData, savedIds, ckLast>>

\* the part of a run that lives in the process
runLocals == <<src, all_submissions, idx, posts_data, comments_data,
               loader_stats, encountered, errorsAtFetch, fieldFailed, otherFail,
               failedSources>>

pipeVars == <<pc, run, exit_code, runLocals, store, fullyDone, apiCalled, ended,
              cleared>>

depthVars == <<comment_map, dcall, all_comments>>

loadVars == <<batch_size, lstats, collection, lload, loadedIds, nloads>>

itemVars == <<events>>

limitVars == <<max_depth, unconverted>>

vars == <<rlVars, stats, retryVars, ckVars, pipeVars, depthVars, loadVars,
          itemVars, limitVars>>

\* what the actions of a RateLimiter on its own leave alone
notRL == <<stats, retryVars, ckVars, pipeVars, depthVars, loadVars, itemVars,
           limitVars>>
\* what the actions of _api_call_with_retry leave alone
notRetry == <<ckVars, pipeVars, depthVars, loadVars, itemVars, limitVars>>
\* what the actions of a CheckpointManager on its own leave alone
notCk == <<rpm, requests, total_requests, issued, stats, retryVars, pipeVars,
          depthVars, loadVars, itemVars, limitVars>>
\* what the actions of a pipeline run leave alone
notPipe == <<rpm, requests, total_requests, issued, retryVars, savedIds,
            depthVars, loadVars, itemVars, limitVars>>
\* what the depth resolver and the comment loop leave alone
notDepth == <<rlVars, stats, retryVars, ckVars, pipeVars, loadVars, itemVars,
              limitVars>>
\* what a MongoLoader on its own leaves alone
notLoad == <<rlVars, stats, retryVars, ckVars, pipeVars, depthVars, itemVars,
             limitVars>>
\* what the loop of extract_posts_with_comments leaves alone
notItems == <<rpm, requests, total_requests, issued, retryVars, savedIds, run,
              exit_code, src, all_submissions, loader_stats, encountered,
              errorsAtFetch, fieldFailed, otherFail, failedSources, store,
              fullyDone, apiCalled, ended, cleared, depthVars, loadVars,
              limitVars>>
\* what get_submission_comments under a depth limit leaves alone
notLimit == <<rlVars, retryVars, ckVars, pipeVars, loadVars, itemVars>>

\* ------------------------------------------------------------------ bounds
\* the clock stops being advanced by Tick beyond this instant
MaxTime == 140
\* the amount of time that passes between two calls when the caller idles
TickStep == 20
\* the largest ceiling a RateLimiter is constructed with
MaxRpm == 2
\* the number of wait_if_needed calls of one behaviour
MaxWaits == 5

\* the largest max_retries an invocation of _api_call_with_retry is given
MaxRetries == 3
\* the number of _api_call_with_retry invocations of one behaviour
MaxApiCalls == 2
\* the longest processed_posts list a CheckpointManager is driven to
MaxCkLen == 3
\* the number of pipeline runs of one behaviour
MaxRuns == 2
\* the longest list of fetched items the item loop is run over step by step
MaxItems == 3
\* the largest MAX_COMMENT_DEPTH setting get_submission_comments is run under
MaxLimit == 2
\* get_submission_comments is not called again once comments_fetched plus
\* errors reaches this
MaxFetched == 4
\* the longest single-thread comment chain a lookup table is built from
MaxChain == 52
\* the number of comments of the lookup tables of arbitrary shape
MaxSmall == 3
\* the largest batch_size a MongoLoader on its own is constructed with
MaxBatch == 2
\* the longest record list a load call is given
MaxLoadLen == 3
\* the number of load calls of one behaviour
MaxLoads == 2

\* ------------------------------------------------------- program constants
\* timedelta(minutes=1), and the 60 of sleep_time
WindowSecs == 60

\* wait_time = 60 * (attempt + 1)
ThrottleWaitUnit == 60
\* await asyncio.sleep(30) after a server error
ServerErrorWait == 30

\* _api_call_with_retry(..., max_retries=3)
DefaultMaxRetries == 3
\* RateLimiter(requests_per_minute=60)
DefaultRpm == 60
\* MongoLoader(batch_size=100)
BatchSize == 100
\* max_iterations = 50  # Prevent infinite loops
max_iterations == 50
\* DELAY_BETWEEN_POSTS = 1
DELAY_BETWEEN_POSTS == 1

\* ------------------------------------------------------------------- stats
StatsInit ==
    [posts_fetched |-> 0, posts_processed |-> 0, comments_fetched |-> 0,
     errors |-> 0, skipped_checkpoints |-> 0, rate_limit_waits |-> 0]

\* ------------------------------------------------------------- RateLimiter
\* a pruning that keeps the timestamps exactly one minute old
PruneInclusive(reqs, t) == SelectSeq(reqs, LAMBDA r : t - r <= WindowSecs)

\* self.requests = [r for r in self.requests if now - r < timedelta(minutes=1)]
Prune(reqs, t) == SelectSeq(reqs, LAMBDA r : t - r < WindowSecs)

\* sleep_time of wait_if_needed, 0 when the window is below the ceiling;
\* reqs is the pruned window
SleepTime(reqs, t, ceiling) ==
    IF Len(reqs) >= ceiling
    THEN LET sleep_time == WindowSecs - (t - reqs[1])
         IN  IF sleep_time > 0 THEN sleep_time ELSE 0
    ELSE 0

\* The timestamp wait_if_needed appends to the window: the instant read at
\* entry, before any sleep
Stamp(t, wake) == t

\* wait_if_needed as a function of the window and the entry instant t;
\* late is by how much asyncio.sleep oversleeps.  wake is the instant the
\* call returns.
WaitResult(reqs, t, ceiling, late) ==
    LET pruned == Prune(reqs, t)
        st     == SleepTime(pruned, t, ceiling)
        wake   == IF st > 0 THEN t + st + late ELSE t
    IN  [requests |-> Append(pruned, Stamp(t, wake)), wake |-> wake]

\* RateLimiter(requests_per_minute=ceiling), the clock at 0
RLStart(ceiling) ==
    /\ now = 0
    /\ rpm = ceiling
    /\ requests = <<>>
    /\ total_requests = 0
    /\ issued = <<>>

RLInit == \E ceiling \in 1..MaxRpm : RLStart(ceiling)

\* time passes while the caller does something else
Tick ==
    /\ now + TickStep <= MaxTime
    /\ now' = now + TickStep
    /\ UNCHANGED <<rpm, requests, total_requests, issued, notRL>>

WaitIfNeeded ==
    /\ total_requests < MaxWaits
    /\ \E late \in {0, TickStep} :
         LET r == WaitResult(requests, now, rpm, late)
         IN  /\ requests' = r.requests
             /\ now' = r.wake
             /\ issued' = Append(issued, r.wake)
    /\ total_requests' = total_requests + 1
    /\ UNCHANGED <<rpm, notRL>>

RLNext == Tick \/ WaitIfNeeded

\* --------------------------------------- RedditExtractor._api_call_with_retry
\* what one invocation of func does: return, or raise one of the failure
\* classes the except clauses tell apart
Outcomes == {"ok", "TooManyRequests", "ServerError", "RequestException", "Exception"}

\* a backoff that counts the attempts from 1
Pow2FromOne(n) == 2 ^ (n + 1)

\* 2 ** attempt
Pow2(n) == 2 ^ n

\* a throttling wait computed from the loop index as it is
ThrottleWaitFromZero(a) == ThrottleWaitUnit * a

\* a throttling wait that does not grow with the attempt
ThrottleWaitFlat(a) == ThrottleWaitUnit

\* wait_time = 60 * (attempt + 1)
ThrottleWait(a) == ThrottleWaitUnit * (a + 1)

\* the loop without its last except clause: a failure outside the three
\* transient classes leaves the function
AttemptStepNoCatchAll(o, a, n) ==
    CASE o = "ok" ->
           [ctl |-> "value", sleep |-> 0, waits |-> 0, errors |-> 0]
      [] o = "TooManyRequests" ->
           [ctl |-> "next", sleep |-> ThrottleWait(a), waits |-> 1, errors |-> 0]
      [] o = "ServerError" ->
           [ctl |-> "next", sleep |-> IF a < n - 1 THEN ServerErrorWait ELSE 0,
            waits |-> 0, errors |-> 0]
      [] o = "RequestException" ->
           [ctl |-> "next", sleep |-> IF a < n - 1 THEN Pow2(a) ELSE 0,
            waits |-> 0, errors |-> 0]
      [] OTHER ->
           [ctl |-> "raise", sleep |-> 0, waits |-> 0, errors |-> 0]

\* a last except clause that gives up at the first failure outside the
\* three transient classes
AttemptStepOtherEnds(o, a, n) ==
    IF o \in {"ok", "TooManyRequests", "ServerError", "RequestException"}
    THEN AttemptStepNoCatchAll(o, a, n)
    ELSE [ctl |-> "none", sleep |-> 0, waits |-> 0, errors |-> 1]

\* a loop that counts an error whenever its final attempt fails
AttemptStepCountsExhausted(o, a, n) ==
    CASE o = "ok" -> AttemptStepNoCatchAll(o, a, n)
      [] o \in {"TooManyRequests", "ServerError", "RequestException"} ->
           [AttemptStepNoCatchAll(o, a, n) EXCEPT
               !.errors = IF a = n - 1 THEN 1 ELSE 0]
      [] OTHER ->
           IF a = n - 1
           THEN [ctl |-> "none", sleep |-> 0, waits |-> 0, errors |-> 1]
           ELSE [ctl |-> "next", sleep |-> 0, waits |-> 0, errors |-> 0]

\* One iteration of the for loop: attempt a of n, func ending with outcome o.
\* ctl is how the iteration ends: "value" (return func's result), "none"
\* (return None), "next" (fall to the next iteration) or "raise" (the failure
\* leaves the function); sleep is the asyncio.sleep it asks for.
AttemptStep(o, a, n) ==
    CASE o = "ok" ->
           [ctl |-> "value", sleep |-> 0, waits |-> 0, errors |-> 0]
      [] o = "TooManyRequests" ->
           [ctl |-> "next", sleep |-> ThrottleWait(a), waits |-> 1, errors |-> 0]
      [] o = "ServerError" ->
           [ctl |-> "next", sleep |-> IF a < n - 1 THEN ServerErrorWait ELSE 0,
            waits |-> 0, errors |-> 0]
      [] o = "RequestException" ->
           [ctl |-> "next", sleep |-> IF a < n - 1 THEN Pow2(a) ELSE 0,
            waits |-> 0, errors |-> 0]
      [] OTHER ->
           IF a = n - 1
           THEN [ctl |-> "none", sleep |-> 0, waits |-> 0, errors |-> 1]
           ELSE [ctl |-> "next", sleep |-> 0, waits |-> 0, errors |-> 0]

RetryIdle ==
    /\ rpc = "idle"
    /\ max_retries = 0
    /\ attempt = 0
    /\ result = "pending"
    /\ func_calls = 0
    /\ failed = 0
    /\ throttled = 0
    /\ last = "none"
    /\ slept = 0
    /\ ncalls = 0

\* the call is made: the rate limiter is passed once, then the loop starts;
\* with max_retries = 0 the loop body never runs and None is returned
ApiCallBegin ==
    /\ rpc = "idle"
    /\ ncalls < MaxApiCalls
    /\ \E n \in 0..MaxRetries, late \in {0, TickStep} :
         LET r == WaitResult(requests, now, rpm, late)
         IN  /\ requests' = r.requests
             /\ now' = r.wake
             /\ issued' = Append(issued, r.wake)
             /\ slept' = SleepTime(Prune(requests, now), now, rpm)
             /\ max_retries' = n
             /\ rpc' = IF n = 0 THEN "done" ELSE "loop"
             /\ result' = IF n = 0 THEN "None" ELSE "pending"
    /\ total_requests' = total_requests + 1
    /\ attempt' = 0
    /\ func_calls' = 0
    /\ failed' = 0
    /\ throttled' = 0
    /\ last' = "none"
    /\ ncalls' = ncalls + 1
    /\ UNCHANGED <<rpm, stats, notRetry>>

\* a loop that passes the rate limiter at the top of every iteration
ApiCallAttemptLimited ==
    /\ rpc = "loop"
    /\ \E o \in Outcomes :
         LET s == AttemptStep(o, attempt, max_retries)
             exhausted == s.ctl = "next" /\ attempt + 1 >= max_retries
             r == WaitResult(requests, now, rpm, 0)
         IN  /\ last' = o
             /\ func_calls' = func_calls + 1
             /\ failed' = IF o = "ok" THEN failed ELSE failed + 1
             /\ throttled' = IF o = "TooManyRequests" THEN throttled + 1 ELSE throttled
             /\ stats' = [stats EXCEPT !.errors = @ + s.errors,
                                        !.rate_limit_waits = @ + s.waits]
             /\ requests' = r.requests
             /\ issued' = Append(issued, r.wake)
             /\ now' = r.wake + s.sleep
             /\ slept' = slept + s.sleep
             /\ attempt' = IF s.ctl = "next" THEN attempt + 1 ELSE attempt
             /\ result' = CASE s.ctl = "value" -> "value"
                            [] s.ctl = "none" -> "None"
                            [] s.ctl = "raise" -> "raised"
                            [] OTHER -> IF exhausted THEN "None" ELSE "pending"
             /\ rpc' = IF s.ctl = "next" /\ ~exhausted THEN "loop" ELSE "done"
    /\ total_requests' = total_requests + 1
    /\ UNCHANGED <<rpm, max_retries, ncalls, notRetry>>

\* one iteration of the loop: func is awaited and ends with outcome o
ApiCallAttempt ==
    /\ rpc = "loop"
    /\ \E o \in Outcomes :
         LET s == AttemptStep(o, attempt, max_retries)
             exhausted == s.ctl = "next" /\ attempt + 1 >= max_retries
         IN  /\ last' = o
             /\ func_calls' = func_calls + 1
             /\ failed' = IF o = "ok" THEN failed ELSE failed + 1
             /\ throttled' = IF o = "TooManyRequests" THEN throttled + 1 ELSE throttled
             /\ stats' = [stats EXCEPT !.errors = @ + s.errors,
                                        !.rate_limit_waits = @ + s.waits]
             /\ now' = now + s.sleep
             /\ slept' = slept + s.sleep
             /\ attempt' = IF s.ctl = "next" THEN attempt + 1 ELSE attempt
             /\ result' = CASE s.ctl = "value" -> "value"
                            [] s.ctl = "none" -> "None"
                            [] s.ctl = "raise" -> "raised"
                            [] OTHER -> IF exhausted THEN "None" ELSE "pending"
             /\ rpc' = IF s.ctl = "next" /\ ~exhausted THEN "loop" ELSE "done"
    /\ UNCHANGED <<rpm, requests, total_requests, issued, max_retries, ncalls,
                   notRetry>>

\* the caller takes the result; the extractor is free for its next call
ApiCallReturn ==
    /\ rpc = "done"
    /\ rpc' = "idle"
    /\ result' = "pending"
    /\ UNCHANGED <<rlVars, stats, max_retries, attempt, func_calls, failed,
                   throttled, last, slept, ncalls, notRetry>>

RetryNext == ApiCallBegin \/ ApiCallAttempt \/ ApiCallReturn

\* ------------------------------------------------------- CheckpointManager
\* the ids of the posts the remote API serves
PostIds == {"p1", "p2", "p3"}

\* The checkpoint file is a sequence of JSON tokens.  json.dump of
\* {'processed_posts': [...], 'last_run': ...} writes these tokens:
SyntaxTokens == {"{", "}", "[", "]", "processed_posts", "last_run"}

\* {'processed_posts': [], 'last_run': None}
EmptyData == [shape |-> "dict", processed_posts |-> <<>>, last_run |-> "null"]

\* json.dump(self.data, f); shape tells a dict with a processed_posts list
\* from the other values json.load can return
DumpJson(data) ==
    CASE data.shape = "dict" ->
           <<"{", "processed_posts", "[">> \o data.processed_posts
               \o <<"]", "last_run", data.last_run, "}">>
      [] data.shape = "list" -> <<"[", "]">>
      [] OTHER -> <<"{", "}">>

\* the text is the dump of a dict with a processed_posts list and a last_run
IsRecordText(t) ==
    /\ Len(t) >= 7
    /\ t[1] = "{" /\ t[2] = "processed_posts" /\ t[3] = "["
    /\ t[Len(t) - 3] = "]" /\ t[Len(t) - 2] = "last_run" /\ t[Len(t)] = "}"
    /\ t[Len(t) - 1] \notin SyntaxTokens
    /\ \A i \in 4..(Len(t) - 4) : t[i] \notin SyntaxTokens

\* json.load(f): ok is FALSE when the text does not parse (JSONDecodeError);
\* a text that parses gives whatever value it denotes
ParseJson(t) ==
    CASE IsRecordText(t) ->
           [ok |-> TRUE,
            data |-> [shape |-> "dict",
                      processed_posts |-> SubSeq(t, 4, Len(t) - 4),
                      last_run |-> t[Len(t) - 1]]]
      [] t = <<"[", "]">> ->
           [ok |-> TRUE, data |-> [EmptyData EXCEPT !.shape = "list"]]
      [] t = <<"{", "}">> ->
           [ok |-> TRUE, data |-> [EmptyData EXCEPT !.shape = "emptydict"]]
      [] OTHER -> [ok |-> FALSE, data |-> EmptyData]

NoFile == [exists |-> FALSE, text |-> <<>>]

\* a manager that never reads the file
CheckpointLoadFresh(file) == EmptyData

\* CheckpointManager._load
CheckpointLoad(file) ==
    IF file.exists
    THEN LET p == ParseJson(file.text)
         IN  IF p.ok THEN p.data ELSE EmptyData
    ELSE EmptyData

\* self.data['processed_posts'] raises on a value that is no dict (TypeError)
\* or a dict without the key (KeyError)
DataRaises(data) == data.shape # "dict"

\* CheckpointManager.is_processed, where it does not raise
IsProcessed(data, id) ==
    \E i \in DOMAIN data.processed_posts : data.processed_posts[i] = id

\* a save that starts the list afresh
SaveDataOnlyLast(data, id, t) ==
    [data EXCEPT !.processed_posts = <<id>>, !.last_run = ToString(t)]

\* the first two statements of CheckpointManager.save
SaveData(data, id, t) ==
    [data EXCEPT !.processed_posts = Append(@, id), !.last_run = ToString(t)]

\* open(self.file, 'w'); json.dump(self.data, f, indent=2)
SaveFile(data) == [exists |-> TRUE, text |-> DumpJson(data)]

\* a first run: no checkpoint file, a manager constructed on it
CkInit ==
    /\ ckFile = NoFile
    /\ ckData = CheckpointLoad(NoFile)
    /\ savedIds = {}
    /\ ckLast = [op |-> "new", id |-> "", raised |-> FALSE]

\* save(id); on a value it cannot index the call raises and changes nothing
CkSave ==
    /\ Len(ckData.processed_posts) < MaxCkLen
    /\ \E id \in PostIds :
         IF DataRaises(ckData)
         THEN /\ ckLast' = [op |-> "save", id |-> id, raised |-> TRUE]
              /\ UNCHANGED <<ckFile, ckData, savedIds>>
         ELSE /\ ckData' = SaveData(ckData, id, now)
              /\ ckFile' = SaveFile(ckData')
              /\ savedIds' = savedIds \cup {id}
              /\ ckLast' = [op |-> "save", id |-> id, raised |-> FALSE]
    /\ UNCHANGED <<now, notCk>>

\* the process ends and a later one constructs a CheckpointManager on the
\* same file
CkNew ==
    /\ ckData' = CheckpointLoad(ckFile)
    /\ ckLast' = [op |-> "new", id |-> "", raised |-> FALSE]
    /\ UNCHANGED <<ckFile, savedIds, now, notCk>>

\* CheckpointManager.clear
CkClear ==
    /\ ckData' = EmptyData
    /\ ckFile' = NoFile
    /\ savedIds' = {}
    /\ ckLast' = [op |-> "clear", id |-> "", raised |-> FALSE]
    /\ UNCHANGED <<now, notCk>>

\* time passes between two calls
CkTick ==
    /\ now + TickStep <= MaxTime
    /\ now' = now + TickStep
    /\ UNCHANGED <<ckVars, notCk>>

CkNext == CkSave \/ CkNew \/ CkClear \/ CkTick

\* the checkpoint files a manager can find at startup: none, one a manager
\* wrote, one cut short by an interrupted write, or JSON that is no record
StartupFiles ==
    {NoFile}
    \cup {SaveFile([EmptyData EXCEPT !.processed_posts = ids, !.last_run = "0"]) :
             ids \in {<<>>, <<"p1">>, <<"p2", "p1">>}}
    \cup {[exists |-> TRUE, text |-> t] :
             t \in {<<>>, <<"{", "processed_posts", "[", "p1">>,
                    <<"[", "]">>, <<"{", "}">>}}

\* a manager constructed on whatever file is there
CkInitAnyFile ==
    /\ ckFile \in StartupFiles
    /\ ckData = CheckpointLoad(ckFile)
    /\ savedIds = {}
    /\ ckLast = [op |-> "new", id |-> "", raised |-> FALSE]

\* ------------------------------------------------------------ the pipeline
\* SUBREDDITS_TO_SCRAPE, and what the remote API lists for each source, in
\* listing order
SUBREDDITS_TO_SCRAPE == <<"s1", "s2">>

Listing == <<  <<"p1", "p2">>, <<"p3">>  >>

\* FETCH_COMMENTS
FETCH_COMMENTS == TRUE

\* The outcomes of func over the attempts of one _api_call_with_retry call
\* that a run is driven with: success at once, three server errors, three
\* failures of no transient class
ApiScenarios ==
    { <<"ok">>,
      <<"ServerError", "ServerError", "ServerError">>,
      <<"Exception", "Exception", "Exception">> }

\* _api_call_with_retry run to its end on the outcomes outs, from attempt a:
\* what it returns and what it adds to stats and to the clock
RECURSIVE RetryRun(_, _, _, _)
RetryRun(outs, a, n, acc) ==
    IF a >= n \/ a >= Len(outs)
    THEN [acc EXCEPT !.result = "None"]
    ELSE LET st == AttemptStep(outs[a + 1], a, n)
             nx == [acc EXCEPT !.errors = @ + st.errors, !.waits = @ + st.waits,
                               !.sleep = @ + st.sleep]
         IN  CASE st.ctl = "value" -> [nx EXCEPT !.result = "value"]
               [] st.ctl = "none"  -> [nx EXCEPT !.result = "None"]
               [] st.ctl = "raise" -> [nx EXCEPT !.result = "raised"]
               [] OTHER            -> RetryRun(outs, a + 1, n, nx)

\* the ways one _api_call_with_retry call of a run can end
ApiCalls ==
    { RetryRun(o, 0, DefaultMaxRetries,
               [result |-> "pending", errors |-> 0, waits |-> 0, sleep |-> 0]) :
        o \in ApiScenarios }

\* stats after an _api_call_with_retry call that ended as c
AfterApiCall(st, c) ==
    [st EXCEPT !.errors = @ + c.errors, !.rate_limit_waits = @ + c.waits]

LoaderStatsInit ==
    [posts_inserted |-> 0, posts_updated |-> 0, comments_inserted |-> 0,
     comments_updated |-> 0, errors |-> 0]

\* no run has ended
NoEnd == [how |-> "none", created |-> FALSE, reported |-> FALSE,
          returns |-> "none", closed_remote |-> FALSE, closed_store |-> FALSE]

\* run_etl_pipeline leaves its try block at the end how and enters finally:
\* created tells that the loader was created, reported that
\* print_stats_summary was called, returns what the function is about to
\* return ("interrupt" when the interrupt goes on to the caller)
Leaving(how, created, reported, returns) ==
    [NoEnd EXCEPT !.how = how, !.created = created, !.reported = reported,
                  !.returns = returns]

\* The finally block of run_etl_pipeline: extractor.close() is awaited and,
\* when that returns, loader.close_connection() is called if a loader was
\* created; closeRaises tells that extractor.close() raises
Teardown(e, closeRaises) ==
    [e EXCEPT !.closed_remote = ~closeRaises,
              !.closed_store = e.created /\ ~closeRaises]

\* what the process exits with: the value run_etl_pipeline returns, or
\* "raised" when an exception leaves its finally block
ExitCode(returned, closeRaises) == IF closeRaises THEN "raised" ELSE returned

\* the locals of a run before it starts
LocalsInit ==
    /\ src = 1
    /\ all_submissions = <<>>
    /\ idx = 1
    /\ posts_data = <<>>
    /\ comments_data = <<>>
    /\ loader_stats = LoaderStatsInit
    /\ encountered = <<>>
    /\ errorsAtFetch = 0
    /\ fieldFailed = {}
    /\ otherFail = FALSE
    /\ failedSources = 0

\* the process is gone: its memory with it
LocalsReset ==
    /\ src' = 1
    /\ all_submissions' = <<>>
    /\ idx' = 1
    /\ posts_data' = <<>>
    /\ comments_data' = <<>>
    /\ loader_stats' = LoaderStatsInit
    /\ encountered' = <<>>
    /\ errorsAtFetch' = 0
    /\ fieldFailed' = {}
    /\ otherFail' = FALSE
    /\ failedSources' = 0
    /\ stats' = StatsInit

\* the pipeline at rest, on no checkpoint file
PipeIdle ==
    /\ pc = "idle"
    /\ run = 0
    /\ exit_code = "none"
    /\ LocalsInit
    /\ store = [posts |-> {}, comments |-> {}]
    /\ fullyDone = {}
    /\ apiCalled = FALSE
    /\ ended = NoEnd
    /\ cleared = FALSE

\* Before the first run: an empty store, and no checkpoint file or one that
\* holds JSON which is no record
PipeInit ==
    /\ PipeIdle
    /\ ckFile \in {NoFile, [exists |-> TRUE, text |-> <<"[", "]">>]}
    /\ ckData = EmptyData
    /\ savedIds = {}
    /\ ckLast = [op |-> "new", id |-> "", raised |-> FALSE]

\* run_etl_pipeline up to the call of extract_posts_with_comments: the
\* extractor (which loads the checkpoint) and the loader are constructed;
\* when the store cannot be reached MongoLoader raises and the run is
\* reported as failed (except Exception: return 1)
RunStart ==
    /\ pc = "idle"
    /\ run < MaxRuns
    /\ run' = run + 1
    /\ ckData' = CheckpointLoad(ckFile)
    /\ ckLast' = [op |-> "new", id |-> "", raised |-> FALSE]
    /\ apiCalled' = FALSE
    /\ exit_code' = "none"
    /\ \E reachable \in BOOLEAN :
         IF reachable
         THEN pc' = "fetch" /\ ended' = NoEnd
         ELSE pc' = "finally" /\ ended' = Leaving("unreachable", FALSE, FALSE, "1")
    /\ UNCHANGED <<stats, runLocals, store, fullyDone, ckFile, cleared, now,
                   notPipe>>

\* the ids of seq that the checkpoint holds, in order
Checkpointed(data, seq) == SelectSeq(seq, LAMBDA id : IsProcessed(data, id))

\* a loop that lacks the checkpoint test keeps every item
KeepAll(data, seq) == seq

\* the ids of seq that the checkpoint does not hold, in order
NotCheckpointed(data, seq) == SelectSeq(seq, LAMBDA id : ~IsProcessed(data, id))

\* the value of skipped_checkpoints after the items of seq were iterated
Skipped(n, data, seq) == n + Len(Checkpointed(data, seq))

\* get_submissions, one pass of its loop: the source is resolved, its
\* listing iterated.  The listing yields its first k items and then ends or
\* raises.  After the last source posts_fetched is set and the list returned.
\* The sleeps of the pass only delay it.
FetchSource ==
    /\ pc = "fetch"
    /\ \E c \in ApiCalls, k \in 0..Len(Listing[src]), raises \in BOOLEAN :
         LET yielded == SubSeq(Listing[src], 1, k)
             st1 == AfterApiCall(stats, c)
             \* is_processed raises on the first item iterated
             ckRaises == DataRaises(ckData) /\ k > 0
             seen == IF ckRaises THEN SubSeq(yielded, 1, 1) ELSE yielded
             kept == IF ckRaises THEN <<>> ELSE NotCheckpointed(ckData, yielded)
             all  == IF c.result = "None" THEN all_submissions
                     ELSE all_submissions \o kept
             st2 == IF c.result = "None" THEN st1
                    ELSE [st1 EXCEPT
                            !.skipped_checkpoints =
                                IF ckRaises THEN @ ELSE Skipped(@, ckData, yielded),
                            !.errors = IF ckRaises \/ raises THEN @ + 1 ELSE @]
             final == src = Len(SUBREDDITS_TO_SCRAPE)
             \* the source was skipped, or left early, because of a failure
             fails == c.result = "None" \/ ckRaises \/ raises
         IN  /\ (c.result = "None") => (k = 0 /\ ~raises)
             /\ failedSources' = IF fails THEN failedSources + 1 ELSE failedSources
             /\ apiCalled' = TRUE
             /\ all_submissions' = all
             /\ encountered' = IF c.result = "None" THEN encountered
                               ELSE encountered \o seen
             /\ stats' = IF final THEN [st2 EXCEPT !.posts_fetched = Len(all)]
                         ELSE st2
             /\ src' = IF final THEN src ELSE src + 1
             /\ pc' = IF final THEN "fetched" ELSE "fetch"
    /\ UNCHANGED <<run, exit_code, idx, posts_data, comments_data, loader_stats,
                   errorsAtFetch, fieldFailed, otherFail, store, fullyDone,
                   ckFile, ckData, ckLast, ended, cleared, now, notPipe>>

\* extract_posts_with_comments between get_submissions and its loop
StartItems ==
    /\ pc = "fetched"
    /\ posts_data' = <<>>
    /\ comments_data' = <<>>
    /\ idx' = 1
    /\ errorsAtFetch' = stats.errors
    /\ failedSources' = 0
    /\ pc' = IF Len(all_submissions) = 0 THEN "load_posts" ELSE "items"
    /\ UNCHANGED <<run, exit_code, src, all_submissions, loader_stats,
                   encountered, fieldFailed, otherFail, store, fullyDone,
                   stats, ckFile, ckData, ckLast, apiCalled, ended, cleared,
                   now, notPipe>>

\* how get_submission_data ends: a record, an exception while the fields
\* are read, or a record whose id or title is empty (ValueError)
FieldOutcomes == {"ok", "throws", "empty"}

\* a validation that returns no record without counting an error
FieldErrorsThrowsOnly(fo) == IF fo = "throws" THEN 1 ELSE 0

\* what get_submission_data adds to stats.errors
FieldErrors(fo) == IF fo = "ok" THEN 0 ELSE 1

\* how get_submission_comments goes on after submission.load: the post has
\* no comments, its comments are listed, or something raises
CommentOutcomes == {"none", "list", "exception"}

\* extract_posts_with_comments, one pass of its loop, for the item at idx.
\* The handles a listing yields carry selftext, so get_submission_data makes
\* no remote call.  cload and cmore are the load and replace_more calls of
\* get_submission_comments; a post whose comments are listed has one.
\* The sleeps of the pass only delay it.
ProcessItem ==
    /\ pc = "items"
    /\ \E fo \in FieldOutcomes, cload \in ApiCalls, co \in CommentOutcomes,
          cmore \in ApiCalls :
         LET id == all_submissions[idx]
             n  == Len(all_submissions)
             st1 == [stats EXCEPT !.errors = @ + FieldErrors(fo)]
             \* get_submission_comments
             listed == co = "list"
             st2 == AfterApiCall(st1, cload)
             st3 == IF listed THEN AfterApiCall(st2, cmore) ELSE st2
             got == IF listed THEN <<id>> ELSE <<>>
             st4 == [st3 EXCEPT !.posts_processed = @ + 1,
                                !.comments_fetched = @ + Len(got),
                                !.errors = IF co = "exception" THEN @ + 1 ELSE @]
             comments_ok == /\ cload.result = "value"
                            /\ co # "exception"
                            /\ listed => cmore.result = "value"
             \* checkpoint.save raises on data it cannot index
             saveRaises == DataRaises(ckData)
             st5 == [st4 EXCEPT !.errors = IF saveRaises THEN @ + 1 ELSE @]
         IN  /\ (fo # "ok") => (co = "none" /\ cload.result = "value")
             /\ (~listed) => (cmore = cload)
             /\ idx' = idx + 1
             /\ pc' = IF idx = n THEN "load_posts" ELSE "items"
             /\ IF fo # "ok"
                THEN /\ stats' = st1
                     /\ fieldFailed' = fieldFailed \cup {idx}
                     /\ UNCHANGED <<posts_data, comments_data, ckData, ckFile,
                                    ckLast, cleared, fullyDone, otherFail>>
                ELSE /\ stats' = st5
                     /\ posts_data' = Append(posts_data, id)
                     /\ comments_data' = comments_data \o got
                     /\ fieldFailed' = fieldFailed
                     /\ otherFail' = (otherFail \/ ~comments_ok \/ saveRaises)
                     /\ ckLast' = [op |-> "save", id |-> id, raised |-> saveRaises]
                     /\ IF ~saveRaises
                        THEN /\ ckData' = SaveData(ckData, id, now)
                             /\ ckFile' = SaveFile(ckData')
                             /\ cleared' = FALSE
                        ELSE UNCHANGED <<ckData, ckFile, cleared>>
                     /\ fullyDone' = IF comments_ok THEN fullyDone \cup {id}
                                     ELSE fullyDone
    /\ UNCHANGED <<run, exit_code, src, all_submissions, loader_stats,
                   encountered, errorsAtFetch, store, failedSources, apiCalled,
                   ended, now, notPipe>>

\* collection.bulk_write(operations, ordered=False) of one upsert per record:
\* the operations at the positions notApplied fail or never reach the
\* store, the others are applied.  A record whose reddit_id the collection
\* does not hold yet is inserted, any other applied operation modifies the
\* document it matches (extracted_at differs from one extraction to the next).
BulkWrite(coll, records, notApplied) ==
    LET applied == {i \in DOMAIN records : i \notin notApplied}
        ids == {records[i] : i \in applied}
        new == ids \ coll
    IN  [coll |-> coll \cup ids,
         upserted_count |-> Cardinality(new),
         modified_count |-> Cardinality(applied) - Cardinality(new)]

\* How the bulk write of a batch ends: it returns, it raises BulkWriteError
\* for the operations that failed, or it raises something else
WriteOutcomes == {"ok", "bulk_error", "exception"}

\* load_posts / load_comments on at most BatchSize records (one batch):
\* the collection afterwards, and what is added to the loader's counters
LoadBatch(coll, records, how, notApplied) ==
    LET w == BulkWrite(coll, records, notApplied)
    IN  [coll |-> w.coll,
         inserted |-> IF how = "ok" THEN w.upserted_count ELSE 0,
         updated  |-> IF how = "ok" THEN w.modified_count ELSE 0,
         errors   |-> CASE how = "ok" -> 0
                        [] how = "bulk_error" -> Cardinality(notApplied)
                        [] OTHER -> 1]

\* the write outcomes of a batch of n records a run is driven with: every
\* operation applied, the first one not, none
WriteCases(n) ==
    {c \in [how : WriteOutcomes, notApplied : {{}, {1}, 1..n}] :
        /\ (c.how = "ok") => (c.notApplied = {})
        /\ (c.how = "bulk_error") => (c.notApplied # {})}

\* run_etl_pipeline: the posts are loaded
LoadPosts ==
    /\ pc = "load_posts"
    /\ Len(posts_data) <= BatchSize
    /\ IF posts_data = <<>>
       THEN UNCHANGED <<store, loader_stats>>
       ELSE \E c \in WriteCases(Len(posts_data)) :
              LET r == LoadBatch(store.posts, posts_data, c.how, c.notApplied)
              IN  /\ store' = [store EXCEPT !.posts = r.coll]
                  /\ loader_stats' =
                       [loader_stats EXCEPT !.posts_inserted = @ + r.inserted,
                                            !.posts_updated = @ + r.updated,
                                            !.errors = @ + r.errors]
    /\ pc' = "load_comments"
    /\ UNCHANGED <<run, exit_code, src, all_submissions, idx, posts_data,
                   comments_data, encountered, errorsAtFetch, fieldFailed,
                   otherFail, fullyDone, stats, ckFile, ckData, ckLast,
                   failedSources, apiCalled, ended, cleared, now, notPipe>>

\* run_etl_pipeline: the comments are loaded
LoadComments ==
    /\ pc = "load_comments"
    /\ Len(comments_data) <= BatchSize
    /\ IF ~FETCH_COMMENTS \/ comments_data = <<>>
       THEN UNCHANGED <<store, loader_stats>>
       ELSE \E c \in WriteCases(Len(comments_data)) :
              LET r == LoadBatch(store.comments, comments_data, c.how, c.notApplied)
              IN  /\ store' = [store EXCEPT !.comments = r.coll]
                  /\ loader_stats' =
                       [loader_stats EXCEPT !.comments_inserted = @ + r.inserted,
                                            !.comments_updated = @ + r.updated,
                                            !.errors = @ + r.errors]
    /\ pc' = "finish"
    /\ UNCHANGED <<run, exit_code, src, all_submissions, idx, posts_data,
                   comments_data, encountered, errorsAtFetch, fieldFailed,
                   otherFail, fullyDone, stats, ckFile, ckData, ckLast,
                   failedSources, apiCalled, ended, cleared, now, notPipe>>

\* run_etl_pipeline: the statistics are gathered and the summary printed;
\* the function is about to return 0
Finish ==
    /\ pc = "finish"
    /\ pc' = "finally"
    /\ ended' = Leaving("completed", TRUE, TRUE, "0")
    /\ LocalsReset
    /\ UNCHANGED <<run, exit_code, store, fullyDone, ckFile, ckData, ckLast,
                   apiCalled, cleared, now, notPipe>>

\* run_etl_pipeline: an exception leaves the try block after the loads,
\* where the statistics are gathered and printed outside any inner handler
\* (except Exception: return 1)
Fail ==
    /\ pc = "finish"
    /\ pc' = "finally"
    /\ ended' = Leaving("failed", TRUE, FALSE, "1")
    /\ LocalsReset
    /\ UNCHANGED <<run, exit_code, store, fullyDone, ckFile, ckData, ckLast,
                   apiCalled, cleared, now, notPipe>>

\* The user interrupts a run at some step.  Either KeyboardInterrupt is
\* raised in the coroutine (caught by except KeyboardInterrupt: the function
\* goes on to return 0) or the event loop delivers the interrupt by
\* cancelling the task, which neither except clause catches: the interrupt
\* goes on to the caller of asyncio.run.  The finally block runs in both.
Interrupt ==
    /\ pc \notin {"idle", "finally"}
    /\ pc' = "finally"
    /\ \E caught \in BOOLEAN :
         ended' = Leaving("interrupted", TRUE, FALSE,
                          IF caught THEN "0" ELSE "interrupt")
    /\ LocalsReset
    /\ UNCHANGED <<run, exit_code, store, fullyDone, ckFile, ckData, ckLast,
                   apiCalled, cleared, now, notPipe>>

\* run_etl_pipeline: the finally block, and the end of the process
Finally ==
    /\ pc = "finally"
    /\ pc' = "idle"
    /\ \E closeRaises \in BOOLEAN :
         /\ ended' = Teardown(ended, closeRaises)
         /\ exit_code' = ExitCode(ended.returns, closeRaises)
    /\ ckData' = EmptyData
    /\ UNCHANGED <<run, runLocals, stats, store, fullyDone, ckFile, ckLast,
                   apiCalled, cleared, now, notPipe>>

\* the process is killed (or the machine stops) at some point of a run
Crash ==
    /\ pc # "idle"
    /\ pc' = "idle"
    /\ exit_code' = "killed"
    /\ ended' = [NoEnd EXCEPT !.how = "killed"]
    /\ LocalsReset
    /\ ckData' = EmptyData
    /\ UNCHANGED <<run, store, fullyDone, ckFile, ckLast, apiCalled, cleared,
                   now, notPipe>>

\* the process is killed inside checkpoint.save, after open(file, 'w') cut
\* the file and before json.dump wrote all of it: a prefix is left
CrashInSave ==
    /\ pc = "items"
    /\ ~DataRaises(ckData)
    /\ LET full == DumpJson(SaveData(ckData, all_submissions[idx], now))
       IN  \E k \in 0..(Len(full) - 1) :
             ckFile' = [exists |-> TRUE, text |-> SubSeq(full, 1, k)]
    /\ pc' = "idle"
    /\ exit_code' = "killed"
    /\ ended' = [NoEnd EXCEPT !.how = "killed"]
    /\ LocalsReset
    /\ ckData' = EmptyData
    /\ cleared' = FALSE
    /\ UNCHANGED <<run, store, fullyDone, ckLast, apiCalled, now, notPipe>>

\* a clear that leaves the file where it is
KeptFile(file) == file

\* if os.path.exists(self.file): os.remove(self.file)
ClearedFile(file) == IF file.exists THEN NoFile ELSE file

\* python main.py clear, between two runs: clear_checkpoint constructs a
\* CheckpointManager on the file and calls clear()
ClearCheckpoint ==
    /\ pc = "idle"
    /\ ckLast.op # "clear"
    /\ ckFile' = ClearedFile(ckFile)
    /\ ckData' = EmptyData
    /\ ckLast' = [op |-> "clear", id |-> "", raised |-> FALSE]
    /\ cleared' = TRUE
    /\ UNCHANGED <<pc, run, exit_code, runLocals, store, fullyDone, stats,
                   apiCalled, ended, now, notPipe>>

PipeNext ==
    \/ RunStart
    \/ FetchSource
    \/ StartItems
    \/ ProcessItem
    \/ LoadPosts
    \/ LoadComments
    \/ Finish
    \/ Fail
    \/ Interrupt
    \/ Finally
    \/ Crash
    \/ CrashInSave

\* A deployment that has run before: a run fetched the first n items of the
\* first source, extracted them and their comments, loaded them and returned
\* 0, and earlier runs ended before they fetched anything.
AfterRun(n) ==
    LET ids == SubSeq(Listing[1], 1, n)
        done == {ids[i] : i \in 1..n}
    IN  /\ pc = "idle"
        /\ run = MaxRuns - 1
        /\ exit_code = "0"
        /\ LocalsInit
        /\ store = [posts |-> done, comments |-> done]
        /\ fullyDone = done
        /\ apiCalled = TRUE
        /\ cleared = FALSE
        /\ ended = Teardown(Leaving("completed", TRUE, TRUE, "0"), FALSE)
        /\ ckData = EmptyData
        /\ ckFile = SaveFile([EmptyData EXCEPT !.processed_posts = ids,
                                               !.last_run = ToString(0)])
        /\ savedIds = {}
        /\ ckLast = [op |-> "save", id |-> ids[n], raised |-> FALSE]

\* the runs of such a deployment, and python main.py clear between them
ClearNext == PipeNext \/ ClearCheckpoint

\* --------------------------------------------------------- comment depth
\* A reference (parent_id) is a prefix and an id: t1_<id> names a comment,
\* t3_<id> the item; NoRef is a parent_id that is None or empty.
CommentRef(id) == [prefix |-> "t1_", id |-> id]

ItemRef == [prefix |-> "t3_", id |-> 0]

NoRef == [prefix |-> "", id |-> 0]

\* current_parent.startswith('t1_')
StartsWithT1(ref) == ref.prefix = "t1_"

\* current_parent.replace('t1_', '') of a reference that starts with t1_:
\* what follows the prefix (an id is base 36 and holds no t1_ of its own)
ReplaceT1(ref) == ref.id

\* depth < max_iterations, with <= for a loop that runs once more
WithinCapInclusive(depth) == depth <= max_iterations

\* depth < max_iterations
WithinCap(depth) == depth < max_iterations

\* the while loop of _calculate_comment_depth from one evaluation of its
\* condition on: the depth it ends with and the number of passes it made
RECURSIVE DepthLoop(_, _, _, _)
DepthLoop(map, current_parent, depth, passes) ==
    IF current_parent # NoRef /\ StartsWithT1(current_parent) /\ WithinCap(depth)
    THEN LET parent_id == ReplaceT1(current_parent)
         IN  IF parent_id \in DOMAIN map
             THEN DepthLoop(map, map[parent_id], depth + 1, passes + 1)
             ELSE [depth |-> depth, passes |-> passes + 1]
    ELSE [depth |-> depth, passes |-> passes]

\* _calculate_comment_depth(comment, comment_map)
CalculateCommentDepth(map, parent_id) == DepthLoop(map, parent_id, 0, 0)

\* MAX_COMMENT_DEPTH
MAX_COMMENT_DEPTH == "None"

\* not (MAX_COMMENT_DEPTH is not None and depth > MAX_COMMENT_DEPTH)
DepthAllowed(depth) == MAX_COMMENT_DEPTH = "None" \/ depth <= MAX_COMMENT_DEPTH

\* the ids of a table in the order the comment list holds them
CommentList(ids) ==
    [i \in 1..Cardinality(ids) |->
        CHOOSE x \in ids : Cardinality({y \in ids : y < x}) = i - 1]

\* the second loop of get_submission_comments over a comment list whose
\* comments all have a body and fields get_comment_data can read: one record
\* per comment that is not beyond MAX_COMMENT_DEPTH
ExtractComments(map, list) ==
    LET data == [i \in DOMAIN list |->
                    [reddit_id |-> list[i],
                     depth |-> CalculateCommentDepth(map, map[list[i]]).depth]]
    IN  SelectSeq(data, LAMBDA r : DepthAllowed(r.depth))

\* the parent references of the tables of arbitrary shape: the item, none,
\* the comments of the table, a comment that is in no table
SmallRefs == {ItemRef, NoRef} \cup {CommentRef(j) : j \in 1..(MaxSmall + 1)}

\* every table over at most MaxSmall comments: threads, self-parents,
\* cycles, parents that are missing
SmallMaps == UNION {[D -> SmallRefs] : D \in SUBSET (1..MaxSmall)}

\* one thread of n comments, each the reply to the one before; the first
\* replies to root
ChainMap(n, root) == [i \in 1..n |-> IF i = 1 THEN root ELSE CommentRef(i - 1)]

\* threads under the item, and threads whose first comment replies to a
\* comment the list does not hold
ChainMaps == {ChainMap(n, root) : n \in 1..MaxChain,
                                  root \in {ItemRef, CommentRef(MaxChain + 1)}}

\* no call was made
NoCall == [op |-> "none", comment |-> 0, depth |-> 0, passes |-> 0]

\* the resolver at rest
DepthIdle ==
    /\ comment_map = <<>>
    /\ dcall = NoCall
    /\ all_comments = <<>>

\* the comment list of an item was fetched and comment_map built from it
DepthInit ==
    /\ comment_map \in SmallMaps \cup ChainMaps
    /\ dcall = NoCall
    /\ all_comments = <<>>

\* self._calculate_comment_depth(comment, comment_map) for a comment of the
\* list
CalculateDepth ==
    /\ \E c \in DOMAIN comment_map :
         LET r == CalculateCommentDepth(comment_map, comment_map[c])
         IN  dcall' = [op |-> "depth", comment |-> c, depth |-> r.depth,
                       passes |-> r.passes]
    /\ UNCHANGED <<comment_map, all_comments, notDepth>>

\* get_submission_comments from comment_map on
GetSubmissionComments ==
    /\ all_comments' = ExtractComments(comment_map, CommentList(DOMAIN comment_map))
    /\ dcall' = [NoCall EXCEPT !.op = "comments"]
    /\ UNCHANGED <<comment_map, notDepth>>

DepthNext == CalculateDepth \/ GetSubmissionComments

\* -------------------------------------------------------------- MongoLoader
\* The records a load call is given: a reddit_id and the rest of the record.
Records == {[reddit_id |-> "a", body |-> "v1"], [reddit_id |-> "a", body |-> "v2"],
            [reddit_id |-> "b", body |-> "v1"]}

RecordLists == UNION {[1..n -> Records] : n \in 0..MaxLoadLen}

\* the positions of the documents of coll with the reddit_id id
Matching(coll, id) == {i \in DOMAIN coll : coll[i].reddit_id = id}

\* an operation that inserts its record whether or not a document matches
InsertOne(coll, rec) ==
    [coll |-> Append(coll, rec), upserted |-> 1, modified |-> 0]

\* UpdateOne({'reddit_id': r['reddit_id']}, {'$set': r}, upsert=True) applied
\* to a collection: the first matching document gets the fields of the
\* record, and is counted as modified when that changes it; without a match
\* the record is inserted
UpsertOne(coll, rec) ==
    LET m == Matching(coll, rec.reddit_id)
    IN  IF m = {}
        THEN [coll |-> Append(coll, rec), upserted |-> 1, modified |-> 0]
        ELSE LET i == CHOOSE x \in m : \A y \in m : x <= y
             IN  [coll |-> [coll EXCEPT ![i] = rec], upserted |-> 0,
                  modified |-> IF coll[i] = rec THEN 0 ELSE 1]

\* collection.bulk_write(operations, ordered=False) on the operations of one
\* batch, from position pos on: the operations at the positions notApplied
\* fail or never reach the store, the others are applied one after the other
RECURSIVE BulkWriteFrom(_, _, _, _)
BulkWriteFrom(w, batch, notApplied, pos) ==
    IF pos > Len(batch) THEN w
    ELSE IF pos \in notApplied THEN BulkWriteFrom(w, batch, notApplied, pos + 1)
    ELSE LET u == UpsertOne(w.coll, batch[pos])
         IN  BulkWriteFrom([coll |-> u.coll,
                            upserted_count |-> w.upserted_count + u.upserted,
                            modified_count |-> w.modified_count + u.modified],
                           batch, notApplied, pos + 1)

BulkWriteOps(coll, batch, notApplied) ==
    BulkWriteFrom([coll |-> coll, upserted_count |-> 0, modified_count |-> 0],
                  batch, notApplied, 1)

\* a handler that counts a failed bulk write as one error
WriteErrorsAsOne(notApplied) == 1

\* len(e.details.get('writeErrors', [])): one entry per failed operation
WriteErrors(notApplied) == Cardinality(notApplied)

\* posts_data[i:i + self.batch_size], i counted from 1
BatchAt(records, i, bs) ==
    SubSeq(records, i, IF i + bs - 1 <= Len(records) THEN i + bs - 1 ELSE Len(records))

\* range(0, len(posts_data), self.batch_size)
NumBatches(records, bs) == (Len(records) + bs - 1) \div bs

\* How the bulk write of a batch of n operations can end: it returns, it
\* raises BulkWriteError for the operations that failed, or it raises
\* something else (the store is gone) with none of the batch applied
BatchOutcomes(n) ==
    {[how |-> "ok", notApplied |-> {}]}
    \cup {[how |-> "bulk_error", notApplied |-> f] : f \in (SUBSET (1..n)) \ {{}}}
    \cup {[how |-> "exception", notApplied |-> 1..n]}

\* the outcomes of the bulk writes of one load call, one per batch
LoadOutcomes(records, bs) ==
    {outs \in [1..NumBatches(records, bs) -> BatchOutcomes(bs)] :
        \A k \in DOMAIN outs :
            outs[k] \in BatchOutcomes(Len(BatchAt(records, (k - 1) * bs + 1, bs)))}

\* the batch loop of load_posts / load_comments from the batch that starts
\* at position i on; l holds the collection, the counters and the number of
\* bulk writes issued
RECURSIVE LoadFrom(_, _, _, _, _)
LoadFrom(l, records, i, bs, outs) ==
    IF i > Len(records) THEN l
    ELSE LET batch == BatchAt(records, i, bs)
             o == outs[((i - 1) \div bs) + 1]
             w == BulkWriteOps(l.coll, batch, o.notApplied)
             applied == {batch[p].reddit_id : p \in (DOMAIN batch) \ o.notApplied}
             l1 == [l EXCEPT !.coll = w.coll, !.issued = @ + 1,
                             !.applied = @ \cup applied,
                             !.failed = IF o.how = "bulk_error"
                                        THEN @ + Cardinality(o.notApplied) ELSE @]
         IN  CASE o.how = "ok" ->
                    LoadFrom([l1 EXCEPT !.inserted = @ + w.upserted_count,
                                        !.updated = @ + w.modified_count],
                             records, i + bs, bs, outs)
               [] o.how = "bulk_error" ->
                    LoadFrom([l1 EXCEPT !.errors = @ + WriteErrors(o.notApplied)],
                             records, i + bs, bs, outs)
               [] OTHER -> [l1 EXCEPT !.errors = @ + 1]

\* load_posts(records) or load_comments(records) on the collection coll
LoadRecords(coll, records, bs, outs) ==
    LoadFrom([coll |-> coll, inserted |-> 0, updated |-> 0, errors |-> 0,
              issued |-> 0, applied |-> {}, failed |-> 0],
             records, 1, bs, outs)

Kinds == {"posts", "comments"}

NoLoad == [kind |-> "none", nrecords |-> 0, batches |-> 0, issued |-> 0,
           failed |-> 0, errors |-> 0, exception |-> FALSE, applied |-> {}]

\* no loader
LoadIdle ==
    /\ batch_size = BatchSize
    /\ lstats = LoaderStatsInit
    /\ collection = [k \in Kinds |-> <<>>]
    /\ lload = NoLoad
    /\ loadedIds = [k \in Kinds |-> {}]
    /\ nloads = 0

\* MongoLoader(batch_size) on an empty database
LoadInit ==
    /\ batch_size \in 1..MaxBatch
    /\ lstats = LoaderStatsInit
    /\ collection = [k \in Kinds |-> <<>>]
    /\ lload = NoLoad
    /\ loadedIds = [k \in Kinds |-> {}]
    /\ nloads = 0

\* what a load call leaves behind, for the collection kind
Loaded(kind, records, outs) ==
    LET l == LoadRecords(collection[kind], records, batch_size, outs)
    IN  /\ collection' = [collection EXCEPT ![kind] = l.coll]
        /\ loadedIds' = [loadedIds EXCEPT ![kind] = @ \cup l.applied]
        /\ lload' = [kind |-> kind, nrecords |-> Len(records),
                     batches |-> NumBatches(records, batch_size),
                     issued |-> l.issued, failed |-> l.failed,
                     errors |-> l.errors,
                     exception |-> \E k \in DOMAIN outs : outs[k].how = "exception",
                     applied |-> l.applied]
        /\ lstats' =
             IF kind = "posts"
             THEN [lstats EXCEPT !.posts_inserted = @ + l.inserted,
                                 !.posts_updated = @ + l.updated,
                                 !.errors = @ + l.errors]
             ELSE [lstats EXCEPT !.comments_inserted = @ + l.inserted,
                                 !.comments_updated = @ + l.updated,
                                 !.errors = @ + l.errors]

\* loader.load_posts(posts_data)
LoadPostsCall ==
    /\ nloads < MaxLoads
    /\ nloads' = nloads + 1
    /\ \E records \in RecordLists :
         \E outs \in LoadOutcomes(records, batch_size) :
            Loaded("posts", records, outs)
    /\ UNCHANGED <<batch_size, notLoad>>

\* loader.load_comments(comments_data)
LoadCommentsCall ==
    /\ nloads < MaxLoads
    /\ nloads' = nloads + 1
    /\ \E records \in RecordLists :
         \E outs \in LoadOutcomes(records, batch_size) :
            Loaded("comments", records, outs)
    /\ UNCHANGED <<batch_size, notLoad>>

LoadNext == LoadPostsCall \/ LoadCommentsCall

\* ----------------------- extract_posts_with_comments, one step at a time
\* the lists get_submissions can return to a manager holding data: fetched
\* ids, each once, none of them checkpointed; nothing when is_processed
\* raises
FetchedLists(data) ==
    IF DataRaises(data) THEN {<<>>}
    ELSE {l \in UNION {[1..n -> PostIds] : n \in 0..MaxItems} :
            /\ \A i, j \in DOMAIN l : i # j => l[i] # l[j]
            /\ \A i \in DOMAIN l : ~IsProcessed(data, l[i])}

\* a loop body that saves the checkpoint before it extracts the comments
NextStepSaveFirst(step, ok) ==
    CASE step = "field" -> IF ok THEN "save" ELSE "next"
      [] step = "save" -> "comments"
      [] OTHER -> "next"

\* a loop body that does not test what get_submission_data returned
NextStepIgnoresNone(step, ok) ==
    CASE step = "field" -> "comments"
      [] step = "comments" -> "save"
      [] OTHER -> "next"

\* The body of the for loop: what follows a step of the current item.
\* "next" is the next pass of the loop (continue, or the end of the body).
NextStep(step, ok) ==
    CASE step = "field" ->
           IF ~ok THEN "next" ELSE IF FETCH_COMMENTS THEN "comments" ELSE "save"
      [] step = "comments" -> "save"
      [] OTHER -> "next"

\* a loop that steps over the item that follows a finished one
GotoSkipping(target) ==
    IF target = "next"
    THEN /\ idx' = idx + 2
         /\ pc' = IF idx + 1 >= Len(all_submissions) THEN "done" ELSE "field"
    ELSE /\ idx' = idx
         /\ pc' = target

\* the loop moves to the step target
Goto(target) ==
    IF target = "next"
    THEN /\ idx' = idx + 1
         /\ pc' = IF idx >= Len(all_submissions) THEN "done" ELSE "field"
    ELSE /\ idx' = idx
         /\ pc' = target

\* how checkpoint.save ends: it returns, or open(self.file, 'w') raises
\* OSError after the id was appended to the list in memory
SaveOutcomes == {"ok", "oserror"}

ItemsIdle == events = <<>>

\* get_submissions has returned; the loop is about to start
ItemsInit ==
    /\ CkInitAnyFile
    /\ all_submissions \in FetchedLists(ckData)
    /\ pc = IF all_submissions = <<>> THEN "done" ELSE "field"
    /\ run = 1
    /\ exit_code = "none"
    /\ src = 1 /\ idx = 1 /\ posts_data = <<>> /\ comments_data = <<>>
    /\ loader_stats = LoaderStatsInit
    /\ encountered = all_submissions
    /\ errorsAtFetch = 0 /\ fieldFailed = {} /\ otherFail = FALSE
    /\ failedSources = 0
    /\ store = [posts |-> {}, comments |-> {}]
    /\ fullyDone = {}
    /\ apiCalled = TRUE
    /\ ended = NoEnd
    /\ cleared = FALSE
    /\ stats = [StatsInit EXCEPT !.posts_fetched = Len(all_submissions)]
    /\ events = <<>>

\* post_data = await self.get_submission_data(submission); a record is
\* appended to posts_data, no record skips the item
ItemField ==
    /\ pc = "field"
    /\ \E fo \in FieldOutcomes :
         LET ok == fo = "ok"
         IN  /\ stats' = [stats EXCEPT !.errors = @ + FieldErrors(fo),
                                        !.posts_processed = IF ok THEN @ + 1 ELSE @]
             /\ posts_data' = IF ok THEN Append(posts_data, all_submissions[idx])
                              ELSE posts_data
             /\ events' = Append(events, [step |-> "field", idx |-> idx, ok |-> ok])
             /\ Goto(NextStep("field", ok))
    /\ UNCHANGED <<comments_data, ckFile, ckData, ckLast, now, notItems>>

\* submission_comments = await self.get_submission_comments(submission),
\* which catches its own failures, and the delay between two posts
ItemComments ==
    /\ pc = "comments"
    /\ \E co \in CommentOutcomes :
         LET got == IF co = "list" THEN <<all_submissions[idx]>> ELSE <<>>
         IN  /\ comments_data' = comments_data \o got
             /\ stats' = [stats EXCEPT
                            !.comments_fetched = @ + Len(got),
                            !.errors = IF co = "exception" THEN @ + 1 ELSE @]
             /\ events' = Append(events, [step |-> "comments", idx |-> idx,
                                         ok |-> co # "exception"])
    /\ now' = IF idx < Len(all_submissions) THEN now + DELAY_BETWEEN_POSTS ELSE now
    /\ Goto(NextStep("comments", TRUE))
    /\ UNCHANGED <<posts_data, ckFile, ckData, ckLast, notItems>>

\* self.checkpoint.save(post_data['reddit_id']); a failure is caught by the
\* except clause of the loop body
ItemSave ==
    /\ pc = "save"
    /\ \E so \in SaveOutcomes :
         LET id == all_submissions[idx]
         IN  /\ ckData' = SaveData(ckData, id, now)
             /\ ckFile' = IF so = "ok" THEN SaveFile(ckData') ELSE ckFile
             /\ ckLast' = [op |-> "save", id |-> id, raised |-> so # "ok"]
             /\ stats' = [stats EXCEPT !.errors = IF so = "ok" THEN @ ELSE @ + 1]
             /\ events' = Append(events, [step |-> "save", idx |-> idx,
                                         ok |-> so = "ok"])
    /\ Goto(NextStep("save", TRUE))
    /\ UNCHANGED <<posts_data, comments_data, now, notItems>>

ItemsNext == ItemField \/ ItemComments \/ ItemSave

\* extract_posts_with_comments between get_submissions and its loop, the
\* loop taken step by step
StartItemSteps ==
    /\ pc = "fetched"
    /\ posts_data' = <<>>
    /\ comments_data' = <<>>
    /\ idx' = 1
    /\ errorsAtFetch' = stats.errors
    /\ failedSources' = 0
    /\ pc' = IF Len(all_submissions) = 0 THEN "done" ELSE "field"
    /\ UNCHANGED <<run, exit_code, src, all_submissions, loader_stats,
                   encountered, fieldFailed, otherFail, store, fullyDone,
                   stats, ckFile, ckData, ckLast, apiCalled, ended, cleared,
                   now, notPipe>>

\* extract_posts_with_comments has been called by a run
ExtractInit ==
    /\ CkInitAnyFile
    /\ pc = "fetch"
    /\ run = 1
    /\ exit_code = "none"
    /\ LocalsInit
    /\ store = [posts |-> {}, comments |-> {}]
    /\ fullyDone = {}
    /\ apiCalled = FALSE
    /\ ended = NoEnd
    /\ cleared = FALSE
    /\ stats = StatsInit
    /\ events = <<>>

\* extract_posts_with_comments: get_submissions source by source, then the
\* loop over the fetched items
ExtractNext ==
    FetchSource \/ StartItemSteps \/ ItemField \/ ItemComments \/ ItemSave

\* ------------------ get_submission_comments under MAX_COMMENT_DEPTH settings
\* MAX_COMMENT_DEPTH = None
NoLimit == [is_none |-> TRUE, value |-> 0]

\* the settings of MAX_COMMENT_DEPTH: None or an integer
Limits == {NoLimit} \cup {[is_none |-> FALSE, value |-> d] : d \in 0..MaxLimit}

\* a test that also discards the comments at the maximum depth
WithinLimitExclusive(limit, depth) == limit.is_none \/ depth < limit.value

\* not (MAX_COMMENT_DEPTH is not None and depth > MAX_COMMENT_DEPTH)
WithinLimit(limit, depth) == ~(~limit.is_none /\ depth > limit.value)

\* the second loop of get_submission_comments under the setting limit; bad
\* are the comments of the list that are skipped (no body) or for which
\* get_comment_data returns None
CommentsLoop(map, list, limit, bad) ==
    LET data == [i \in DOMAIN list |->
                    [reddit_id |-> list[i],
                     depth |-> CalculateCommentDepth(map, map[list[i]]).depth]]
    IN  SelectSeq(data, LAMBDA r : r.reddit_id \notin bad
                                     /\ WithinLimit(limit, r.depth))

LimitIdle ==
    /\ max_depth = NoLimit
    /\ unconverted = {}

\* the comment list of an item was fetched, under some setting
LimitInit ==
    /\ comment_map \in SmallMaps
    /\ dcall = NoCall
    /\ all_comments = <<>>
    /\ max_depth \in Limits
    /\ unconverted \in SUBSET (DOMAIN comment_map)

\* get_submission_comments from comment_map on: the loop runs and the
\* comments it kept are counted and returned, or something raises outside
\* the loop, an error is counted and [] returned
GetCommentsLimited ==
    /\ stats.comments_fetched + stats.errors < MaxFetched
    /\ \E raises \in BOOLEAN :
         IF raises
         THEN /\ all_comments' = <<>>
              /\ dcall' = [NoCall EXCEPT !.op = "failed"]
              /\ stats' = [stats EXCEPT !.errors = @ + 1]
         ELSE /\ all_comments' = CommentsLoop(comment_map,
                                              CommentList(DOMAIN comment_map),
                                              max_depth, unconverted)
              /\ dcall' = [NoCall EXCEPT !.op = "comments"]
              /\ stats' = [stats EXCEPT !.comments_fetched = @ + Len(all_comments')]
    /\ UNCHANGED <<comment_map, max_depth, unconverted, notLimit>>

LimitNext == GetCommentsLimited

\* ---------------------------------------------------------- specifications
\* a RateLimiter on its own, called at arbitrary instants
InitRL ==
    RLInit /\ stats = StatsInit /\ RetryIdle /\ CkInit /\ PipeIdle /\ DepthIdle
    /\ LoadIdle /\ ItemsIdle /\ LimitIdle

SpecRL == InitRL /\ [][RLNext]_vars

\* an extractor making _api_call_with_retry calls one after the other
InitRetry ==
    RLInit /\ stats = StatsInit /\ RetryIdle /\ CkInit /\ PipeIdle /\ DepthIdle
    /\ LoadIdle /\ ItemsIdle /\ LimitIdle

SpecRetry == InitRetry /\ [][RetryNext]_vars

\* a CheckpointManager used through its interface, starting without a file
InitCk ==
    RLStart(DefaultRpm) /\ stats = StatsInit /\ RetryIdle /\ CkInit /\ PipeIdle
    /\ DepthIdle /\ LoadIdle /\ ItemsIdle /\ LimitIdle

SpecCk == InitCk /\ [][CkNext]_vars

\* the same, starting on any file
InitCkAnyFile ==
    RLStart(DefaultRpm) /\ stats = StatsInit /\ RetryIdle /\ CkInitAnyFile
    /\ PipeIdle /\ DepthIdle
    /\ LoadIdle /\ ItemsIdle /\ LimitIdle

SpecCkAnyFile == InitCkAnyFile /\ [][CkNext]_vars

\* runs of the pipeline, one after the other, each ending or being killed
Init ==
    RLStart(DefaultRpm) /\ stats = StatsInit /\ RetryIdle /\ PipeInit /\ DepthIdle
    /\ LoadIdle /\ ItemsIdle /\ LimitIdle

Spec == Init /\ [][PipeNext]_vars

\* runs of the pipeline and clears of the checkpoint, after a run that
\* checkpointed one or two items
InitClear ==
    /\ RLStart(DefaultRpm) /\ stats = StatsInit /\ RetryIdle /\ DepthIdle
    /\ LoadIdle /\ ItemsIdle /\ LimitIdle
    /\ \E n \in 1..Len(Listing[1]) : AfterRun(n)

SpecClear == InitClear /\ [][ClearNext]_vars

\* the depth resolver and the comment loop on the comment list of one item
InitDepth ==
    RLStart(DefaultRpm) /\ stats = StatsInit /\ RetryIdle /\ CkInit /\ PipeIdle
    /\ DepthInit /\ LoadIdle /\ ItemsIdle /\ LimitIdle

SpecDepth == InitDepth /\ [][DepthNext]_vars

\* a MongoLoader given record lists to load, one call after the other
InitLoad ==
    RLStart(DefaultRpm) /\ stats = StatsInit /\ RetryIdle /\ CkInit /\ PipeIdle
    /\ DepthIdle /\ LoadInit /\ ItemsIdle /\ LimitIdle

SpecLoad == InitLoad /\ [][LoadNext]_vars

\* the loop of extract_posts_with_comments over a fetched list
InitItems ==
    /\ RLStart(DefaultRpm) /\ RetryIdle /\ ItemsInit /\ DepthIdle /\ LoadIdle
    /\ LimitIdle

SpecItems == InitItems /\ [][ItemsNext]_vars

\* get_submission_comments on the comment list of one item, under every
\* setting of MAX_COMMENT_DEPTH
InitLimit ==
    /\ RLStart(DefaultRpm) /\ stats = StatsInit /\ RetryIdle /\ CkInit
    /\ PipeIdle /\ LimitInit /\ LoadIdle /\ ItemsIdle

SpecLimit == InitLimit /\ [][LimitNext]_vars

\* one call of extract_posts_with_comments in which every remote call and
\* every sleep returns: a step that can be taken is eventually taken
InitExtract ==
    /\ RLStart(DefaultRpm) /\ RetryIdle /\ ExtractInit /\ DepthIdle /\ LoadIdle
    /\ LimitIdle

SpecExtract == InitExtract /\ [][ExtractNext]_vars /\ WF_vars(ExtractNext)

\* ------------------------------------------------------------------ claims
\* the number of issue instants in the 60 seconds that start at instant t
IssuedInWindow(t) ==
    Cardinality({j \in DOMAIN issued : issued[j] >= t /\ issued[j] < t + WindowSecs})

\* C1: taking the instant each wait_if_needed call returns as the instant the
\* remote call is issued, no 60-second interval holds more than rpm issue
\* instants.
C1_NoWindowOverCeiling ==
    \A i \in DOMAIN issued : IssuedInWindow(issued[i]) <= rpm

\* C2: no failure of func leaves _api_call_with_retry, whatever its class,
\* and a call whose every attempt failed has invoked func exactly
\* max_retries times and returns None.
C2_FailureNeverEscapes ==
    /\ result # "raised"
    /\ (rpc = "done" /\ failed = func_calls)
         => (result = "None" /\ func_calls = max_retries)

\* a call of three attempts that all failed, in at least two classes
C2_Witness ==
    /\ rpc = "done" /\ max_retries = 3 /\ failed = 3 /\ func_calls = 3
    /\ throttled = 1 /\ last = "Exception" /\ result = "None"

\* 60 + 120 + ... + 60k
ThrottleSum(k) == ThrottleWaitUnit * ((k * (k + 1)) \div 2)

\* C3: when func is throttled on its first k attempts and succeeds on attempt
\* k+1 (k < max_retries), the call returns func's result after exactly k+1
\* invocations, having slept at least 60 + 120 + ... + 60k seconds.
C3_ThrottledThenSuccess ==
    (rpc = "done" /\ last = "ok" /\ throttled = failed /\ failed < max_retries)
        => /\ result = "value"
           /\ func_calls = failed + 1
           /\ slept >= ThrottleSum(failed)

\* two throttled attempts, then success
C3_Witness ==
    /\ rpc = "done" /\ last = "ok" /\ throttled = 2 /\ failed = 2
    /\ result = "value" /\ slept >= 180

\* the number of occurrences of id in a list
Occurrences(seq, id) == Cardinality({i \in DOMAIN seq : seq[i] = id})

\* C4: an id that was saved, however often, occurs exactly once in the
\* processed list, in memory and in the checkpoint file.
C4_SavedIdOccursOnce ==
    \A id \in savedIds :
        /\ Occurrences(ckData.processed_posts, id) = 1
        /\ Occurrences(CheckpointLoad(ckFile).processed_posts, id) = 1

\* C5: every id saved since the last clear is processed for the live manager
\* (so right after its save) and for a manager constructed anew from the
\* file; an id not saved since the last clear is processed for neither.
C5_ProcessedIffSaved ==
    /\ ~DataRaises(ckData)
    /\ \A id \in PostIds :
         /\ IsProcessed(ckData, id) <=> id \in savedIds
         /\ IsProcessed(CheckpointLoad(ckFile), id) <=> id \in savedIds
    /\ (ckLast.op = "save") => (~ckLast.raised /\ IsProcessed(ckData, ckLast.id))

\* a manager constructed anew after two ids were saved, a third never
C5_Witness ==
    /\ ckLast.op = "new"
    /\ Cardinality(savedIds) = 2
    /\ \A id \in savedIds : IsProcessed(ckData, id)
    /\ \E id \in PostIds : ~IsProcessed(ckData, id)

\* the file is missing or is not the dump of a record with a processed list
Malformed(file) == ~file.exists \/ ~IsRecordText(file.text)

\* C6: a manager constructed on a missing or malformed file starts from the
\* empty state, and no is_processed or save call on a manager raises.
C6_MalformedStartsEmpty ==
    /\ Malformed(ckFile) => CheckpointLoad(ckFile) = EmptyData
    /\ ~DataRaises(ckData)
    /\ ~ckLast.raised

\* the ids the checkpoint file holds for a manager that loads it
DurableIds == {id \in PostIds : IsProcessed(CheckpointLoad(ckFile), id)}

\* C7: at every point of a run, every id in the durable checkpoint is the id
\* of an item whose fields and comments were both extracted without a
\* failure.
C7_CheckpointedIsFullyDone == DurableIds \subseteq fullyDone

\* C8: whenever no run is in progress (a run returned or was killed), every
\* id in the durable checkpoint has its post in the document store.
C8_CheckpointedIsStored == (pc = "idle") => (DurableIds \subseteq store.posts)

\* the ids the live checkpoint holds
Held == {ckData.processed_posts[j] : j \in DOMAIN ckData.processed_posts}

\* C9: when get_submissions returns, no item it returns is in the checkpoint,
\* skipped_checkpoints counts exactly the iterated items that are, and
\* posts_fetched is the number of items returned; with a checkpoint that
\* answers, the items returned are the iterated items that are not in it.
C9_SkipsCheckpointed ==
    (pc = "fetched") =>
        /\ \A i \in DOMAIN all_submissions : all_submissions[i] \notin Held
        /\ stats.skipped_checkpoints =
             Cardinality({i \in DOMAIN encountered : encountered[i] \in Held})
        /\ stats.posts_fetched = Len(all_submissions)
        /\ ~DataRaises(ckData) =>
             all_submissions = SelectSeq(encountered, LAMBDA id : id \notin Held)

\* the checkpoint holds p1; p1, p2 and p3 are iterated, p2 and p3 returned
C9_Witness ==
    /\ pc = "fetched"
    /\ "p1" \in Held
    /\ encountered = <<"p1", "p2", "p3">>
    /\ all_submissions = <<"p2", "p3">>
    /\ stats.skipped_checkpoints = 1

\* seq without the elements at the positions bad
Without(seq, bad) ==
    LET F[i \in 0..Len(seq)] ==
            IF i = 0 THEN <<>>
            ELSE IF i \in bad THEN F[i - 1] ELSE Append(F[i - 1], seq[i])
    IN  F[Len(seq)]

\* C10: when the loop of extract_posts_with_comments ends and nothing but
\* field extractions failed, the posts returned are the fetched items whose
\* field extraction did not fail, in fetch order, and stats.errors grew by
\* the number of items whose field extraction failed.
C10_FailedItemsDropped ==
    (pc \in {"load_posts", "load_comments", "finish"} /\ ~otherFail) =>
        /\ posts_data = Without(all_submissions, fieldFailed)
        /\ stats.errors - errorsAtFetch = Cardinality(fieldFailed)

\* three items, the second one failing: posts 1 and 3, one error
C10_Witness ==
    /\ pc = "load_posts" /\ ~otherFail
    /\ all_submissions = <<"p1", "p2", "p3">>
    /\ fieldFailed = {2}
    /\ posts_data = <<"p1", "p3">>
    /\ stats.errors - errorsAtFetch = 1

\* the chain of parents from ref up, followed for at most fuel links: whether
\* it reaches the item (grounded), whether it reaches a comment the table
\* does not hold (missing), and the number of comments passed on the way
RECURSIVE Walk(_, _, _)
Walk(map, ref, fuel) ==
    IF ref.prefix = "t3_" THEN [grounded |-> TRUE, missing |-> FALSE, n |-> 0]
    ELSE IF ref.prefix # "t1_" \/ fuel = 0
         THEN [grounded |-> FALSE, missing |-> FALSE, n |-> 0]
    ELSE IF ref.id \notin DOMAIN map
         THEN [grounded |-> FALSE, missing |-> TRUE, n |-> 0]
    ELSE LET w == Walk(map, map[ref.id], fuel - 1)
         IN  [w EXCEPT !.n = @ + 1]

\* the chain of the comment c of comment_map
ChainOf(c) == Walk(comment_map, comment_map[c], Cardinality(DOMAIN comment_map))

\* C11: for a comment whose parent chain reaches the item with every
\* ancestor in the table, _calculate_comment_depth returns the number of
\* comments on the chain, however long the chain.
C11_DepthIsChainLength ==
    (dcall.op = "depth" /\ ChainOf(dcall.comment).grounded)
        => dcall.depth = ChainOf(dcall.comment).n

\* C12: on any table, one with cycles included, _calculate_comment_depth
\* makes at most 50 passes of its loop and returns an integer in 0..50.
C12_DepthBounded ==
    (dcall.op = "depth") => (dcall.passes <= 50 /\ dcall.depth \in 0..50)

\* a comment that is its own ancestor: 50 passes, depth 50
C12_Witness ==
    /\ dcall.op = "depth"
    /\ ~ChainOf(dcall.comment).grounded /\ ~ChainOf(dcall.comment).missing
    /\ dcall.passes = 50 /\ dcall.depth = 50

\* C13: for a comment whose parent chain reaches a comment the table does not
\* hold, _calculate_comment_depth returns the number of links resolved before
\* the missing one, and get_submission_comments returns that comment, with
\* that depth, together with every other comment of the list.
C13_MissingParentPartialDepth ==
    /\ (dcall.op = "depth" /\ ChainOf(dcall.comment).missing)
           => dcall.depth = ChainOf(dcall.comment).n
    /\ (dcall.op = "comments")
           => /\ Len(all_comments) = Cardinality(DOMAIN comment_map)
              /\ \A c \in DOMAIN comment_map :
                   \E i \in DOMAIN all_comments :
                      /\ all_comments[i].reddit_id = c
                      /\ ChainOf(c).missing => all_comments[i].depth = ChainOf(c).n

\* the record lists whose bulk writes all return
AllOk(records, bs) == [k \in 1..NumBatches(records, bs) |-> [how |-> "ok", notApplied |-> {}]]

\* the collection after load calls that meet no failure
Once(coll, records) == LoadRecords(coll, records, batch_size, AllOk(records, batch_size)).coll

\* C14: loading a record list a second time leaves the collection as the
\* first load left it, and after any sequence of loads a collection holds
\* exactly one document for every reddit_id whose upsert was applied and none
\* for any other, also when an id occurs twice in a list or in two batches.
C14_LoadIdempotent ==
    \A k \in Kinds :
        /\ \A r \in RecordLists :
             Once(Once(collection[k], r), r) = Once(collection[k], r)
        /\ \A id \in {"a", "b"} :
             Cardinality(Matching(collection[k], id)) =
                 IF id \in loadedIds[k] THEN 1 ELSE 0

\* after two loads, three records in batches of one: a was inserted once and
\* its document changed by later upserts, and there is one document of a
C14_Witness ==
    /\ batch_size = 1 /\ nloads = 2 /\ lload.kind = "posts" /\ lload.nrecords = 3
    /\ lload.applied = {"a"}
    /\ lstats.posts_inserted = 1 /\ lstats.posts_updated >= 2
    /\ Cardinality(Matching(collection["posts"], "a")) = 1

\* C15: in a load whose bulk writes return or report a partial failure, the
\* errors counter grows by the number of failed operations, every batch has
\* its bulk write issued, and every operation that did not fail has its
\* document in the collection.
C15_PartialFailureCounted ==
    (lload.kind # "none" /\ ~lload.exception)
        => /\ lload.errors = lload.failed
           /\ lload.issued = lload.batches
           /\ \A id \in lload.applied : Matching(collection[lload.kind], id) # {}

\* a first batch of two operations that both fail, a second batch applied
C15_Witness ==
    /\ batch_size = 2 /\ nloads = 1 /\ lload.nrecords = 3 /\ ~lload.exception
    /\ lload.batches = 2 /\ lload.issued = 2
    /\ lload.failed = 2 /\ lload.errors = 2
    /\ lload.applied = {"b"}
    /\ Matching(collection[lload.kind], "b") # {}

\* C16: whenever run_etl_pipeline has ended after both components were
\* created (it completed, an exception left a step, or the user interrupted
\* it), the store connection is closed, also when closing the remote client
\* failed (closed_remote is false exactly when that close raised).
C16_BothClosedOnEveryEnd ==
    (pc = "idle" /\ ended.how \in {"completed", "failed", "interrupted"})
        => ended.closed_store

\* C17: whenever a run has ended, by completion, by a failure after the
\* extraction started or by a user interrupt, the summary of the counters
\* was printed.
C17_SummaryOnEveryEnd ==
    (pc = "idle" /\ ended.how \in {"completed", "failed", "interrupted"})
        => ended.reported

\* C18: a run that found the store unreachable at startup exits with code 1
\* and has issued no remote call; a run the user interrupted exits with
\* code 0.  (That such a run writes no document and leaves the checkpoint
\* file alone is the UNCHANGED of RunStart.)
C18_UnreachableOneInterruptZero ==
    /\ (pc = "idle" /\ ended.how = "unreachable" /\ ended.closed_remote)
          => (exit_code = "1" /\ ~apiCalled)
    /\ (pc = "idle" /\ ended.how = "interrupted" /\ ended.closed_remote)
          => exit_code = "0"

\* C19: when get_submissions returns, stats.errors is the number of sources
\* that were skipped, or left early, because of a failure.
C19_OneErrorPerFailedSource ==
    (pc = "fetched") => stats.errors = failedSources

\* the items of a sequence
Range(seq) == {seq[i] : i \in DOMAIN seq}

\* C20: right after a clear no id is processed, the checkpoint file does not
\* exist and a manager constructed on it starts empty, also when there was no
\* file; and a run that follows a clear skips nothing: it fetches every item
\* it iterates, those checkpointed before the clear included.
C20_ClearForgetsEverything ==
    /\ (ckLast.op = "clear")
          => /\ ~ckLast.raised
             /\ ~ckFile.exists
             /\ ckData = EmptyData /\ CheckpointLoad(ckFile) = EmptyData
             /\ \A id \in PostIds : ~IsProcessed(ckData, id)
    /\ (pc = "fetched" /\ cleared)
          => /\ stats.skipped_checkpoints = 0
             /\ Range(encountered) \subseteq Range(all_submissions)

\* p1 and p2 were checkpointed and loaded, the checkpoint was cleared, and
\* the next run fetched p1, p2 and p3
C20_Witness ==
    /\ pc = "fetched" /\ cleared
    /\ {"p1", "p2"} \subseteq store.posts
    /\ all_submissions = <<"p1", "p2", "p3">>

\* C21: every _api_call_with_retry invocation passes the rate limiter once,
\* before func is first awaited, whatever the number of attempts:
\* total_requests and the history of limiter passes count the invocations,
\* and the window holds at most one timestamp per invocation.
C21_LimiterOncePerCall ==
    /\ total_requests = ncalls
    /\ Len(issued) = ncalls
    /\ Len(requests) <= ncalls
    /\ (rpc = "loop" /\ func_calls = 0) => total_requests >= 1

\* one invocation made three attempts and passed the limiter once
C21_Witness ==
    /\ rpc = "done" /\ ncalls = 1 /\ func_calls = 3
    /\ total_requests = 1 /\ Len(requests) = 1

\* C22: the n-th attempt of a call (n = 1, 2, ...), when it ends with the
\* throttling signal, is followed by a sleep of exactly 60 * n seconds, adds
\* 1 to rate_limit_waits and uses up one of the max_retries attempts; a call
\* whose every attempt was throttled ends, with None, after max_retries
\* attempts.
C22_ThrottledAttempt ==
    /\ [][(rpc = "loop" /\ func_calls' = func_calls + 1
             /\ last' = "TooManyRequests")
            => /\ slept' = slept + ThrottleWaitUnit * func_calls'
               /\ now' = now + ThrottleWaitUnit * func_calls'
               /\ stats'.rate_limit_waits = stats.rate_limit_waits + 1
               /\ attempt' = attempt + 1
               /\ func_calls' <= max_retries]_vars
    /\ [](rpc = "done" /\ func_calls > 0 /\ throttled = func_calls
            => func_calls = max_retries /\ result = "None")

\* a call of three attempts, all throttled: 60 + 120 + 180 seconds of sleep
C22_Witness ==
    /\ rpc = "done" /\ max_retries = 3 /\ throttled = 3 /\ func_calls = 3
    /\ result = "None" /\ slept >= 360 /\ stats.rate_limit_waits >= 3

\* C23: an attempt that ends with a server-side failure is followed by a
\* sleep of 30 seconds, one that ends with a transport/request failure by a
\* sleep of 2^attempt seconds (attempt counted from 0: 1, 2, 4, ...), when
\* an attempt remains, and the loop goes on; on the final attempt there is
\* no sleep and the call returns None.
C23_TransientBackoff ==
    [][(rpc = "loop" /\ func_calls' = func_calls + 1
          /\ last' \in {"ServerError", "RequestException"})
         => IF attempt < max_retries - 1
            THEN /\ slept' = slept + (IF last' = "ServerError" THEN ServerErrorWait
                                      ELSE 2 ^ attempt)
                 /\ now' - now = slept' - slept
                 /\ rpc' = "loop" /\ attempt' = attempt + 1
                 /\ result' = "pending"
            ELSE /\ slept' = slept /\ now' = now
                 /\ rpc' = "done" /\ result' = "None"]_vars

\* three transport failures: sleeps of 1 and 2 seconds, none after the last
C23_Witness ==
    /\ rpc = "done" /\ max_retries = 3 /\ func_calls = 3 /\ failed = 3
    /\ throttled = 0 /\ last = "RequestException" /\ slept = 3
    /\ result = "None"

\* C24: an attempt that ends with a failure outside the three transient
\* classes is followed, when it is not the final one, by the next attempt
\* with no sleep and no counter changed; on the final attempt errors grows by
\* exactly 1 and the call returns None.
C24_OtherFailure ==
    [][(rpc = "loop" /\ func_calls' = func_calls + 1 /\ last' = "Exception")
         => /\ slept' = slept /\ now' = now
            /\ IF attempt < max_retries - 1
               THEN /\ rpc' = "loop" /\ attempt' = attempt + 1
                    /\ result' = "pending"
                    /\ stats' = stats
               ELSE /\ rpc' = "done" /\ result' = "None"
                    /\ stats' = [stats EXCEPT !.errors = @ + 1]]_vars

\* three failures outside the transient classes: no sleep, one error counted
C24_Witness ==
    /\ rpc = "done" /\ ncalls = 1 /\ max_retries = 3 /\ func_calls = 3
    /\ failed = 3 /\ last = "Exception" /\ slept = 0
    /\ stats.errors = 1 /\ result = "None"

\* C25: a step of _api_call_with_retry changes the errors counter only when
\* it is the final attempt failing outside the three transient classes (by
\* exactly 1): a call whose attempts are used up by throttling, server or
\* transport failures returns None with errors as it was, and so does a call
\* that succeeds after failed attempts.
C25_ErrorsOnlyOnFinalOther ==
    [][(stats'.errors # stats.errors)
         => /\ rpc = "loop" /\ last' = "Exception"
            /\ attempt = max_retries - 1
            /\ stats'.errors = stats.errors + 1
            /\ rpc' = "done" /\ result' = "None"]_vars

\* a call of three failed attempts, one throttled and the last a transport
\* failure, returned None and counted no error
C25_Witness ==
    /\ rpc = "done" /\ ncalls = 1 /\ max_retries = 3 /\ failed = 3
    /\ throttled = 1 /\ last = "RequestException"
    /\ result = "None" /\ stats.errors = 0

\* C26: as long as clear is not called, an id that is processed stays
\* processed, in the manager's memory and in what the file holds (what a
\* manager constructed on it would load), and a save that returns has set
\* last_run, in memory and in the file, to the time of the save.
C26_ProcessedOnlyGrows ==
    [][(ckLast'.op # "clear")
         => /\ \A id \in PostIds :
                 /\ IsProcessed(ckData, id) => IsProcessed(ckData', id)
                 /\ IsProcessed(CheckpointLoad(ckFile), id)
                       => IsProcessed(CheckpointLoad(ckFile'), id)
            /\ (ckLast'.op = "save" /\ ~ckLast'.raised /\ ckData' # ckData)
                  => /\ ckData'.last_run = ToString(now)
                     /\ CheckpointLoad(ckFile').last_run = ToString(now)]_vars

\* p1 was saved, time passed, p2 was saved: both are processed, in memory
\* and in the file, and last_run is the time of the second save
C26_Witness ==
    /\ ckLast = [op |-> "save", id |-> "p2", raised |-> FALSE]
    /\ ckData.processed_posts = <<"p1", "p2">>
    /\ CheckpointLoad(ckFile).processed_posts = <<"p1", "p2">>
    /\ now > 0 /\ ckData.last_run = ToString(now)

\* the place of a step in the body of the item loop
Rank(step) == CASE step = "field" -> 1 [] step = "comments" -> 2 [] OTHER -> 3

\* the ids of the fetched list that the checkpoint holds, in the order the
\* checkpoint holds them
Added == SelectSeq(ckData.processed_posts, LAMBDA id : id \in Range(all_submissions))

\* C27: the steps of extract_posts_with_comments are taken one item at a
\* time, in fetch order, and for each item in the order field extraction,
\* comment extraction, checkpoint save, each step following the one before
\* it; a step of the next item is taken only after the save of the current
\* item has ended or the item was abandoned at its field extraction; and the
\* ids are appended to the checkpoint in the order the posts are appended to
\* the result.
C27_OneItemAtATime ==
    /\ \A i, j \in DOMAIN events :
         i < j => \/ events[i].idx < events[j].idx
                  \/ /\ events[i].idx = events[j].idx
                     /\ Rank(events[i].step) < Rank(events[j].step)
    /\ \A j \in DOMAIN events :
         /\ (events[j].step # "field")
               => /\ j > 1
                  /\ events[j - 1].idx = events[j].idx
                  /\ Rank(events[j - 1].step) = Rank(events[j].step) - 1
         /\ (events[j].step = "field" /\ j > 1)
               => /\ events[j - 1].idx = events[j].idx - 1
                  /\ \/ events[j - 1].step = "save"
                     \/ events[j - 1].step = "field" /\ ~events[j - 1].ok
         /\ (events[j].step = "field" /\ j = 1) => events[j].idx = 1
    /\ Len(Added) <= Len(posts_data)
    /\ SubSeq(posts_data, 1, Len(Added)) = Added
    /\ (pc = "done") => Added = posts_data

\* three fetched items, the second abandoned at its field extraction: seven
\* steps, two posts, their ids in the checkpoint in the same order
C27_Witness ==
    /\ pc = "done" /\ Len(all_submissions) = 3 /\ Len(events) = 7
    /\ ~events[4].ok
    /\ posts_data = <<all_submissions[1], all_submissions[3]>>
    /\ Added = posts_data

\* C28: an item whose field extraction returned no record is not in the post
\* list, has no comment extraction and no checkpoint save, is not processed
\* in memory or in the file, so that get_submissions of a later run keeps it,
\* and the loop has gone on to the next item.
C28_NoRecordItemSkipped ==
    \A j \in DOMAIN events :
        (events[j].step = "field" /\ ~events[j].ok)
          => LET k  == events[j].idx
                 id == all_submissions[k]
             IN  /\ id \notin Range(posts_data)
                 /\ id \notin Range(comments_data)
                 /\ \A i \in DOMAIN events :
                       events[i].idx = k => events[i].step = "field"
                 /\ ~IsProcessed(ckData, id)
                 /\ ~IsProcessed(CheckpointLoad(ckFile), id)
                 /\ id \in Range(NotCheckpointed(CheckpointLoad(ckFile),
                                                 all_submissions))
                 /\ idx > k
                 /\ (k < Len(all_submissions) /\ Len(events) = j)
                       => (pc = "field" /\ idx = k + 1)

\* the first of two items returned no record: the second was extracted and
\* checkpointed, the first is in neither list
C28_Witness ==
    /\ pc = "done" /\ Len(all_submissions) = 2
    /\ ~events[1].ok /\ events[1].step = "field"
    /\ posts_data = <<all_submissions[2]>>
    /\ CheckpointLoad(ckFile).processed_posts = <<all_submissions[2]>>

\* the depth _calculate_comment_depth computes for comment c of the table
DepthOf(c) == CalculateCommentDepth(comment_map, comment_map[c]).depth

\* C29: under MAX_COMMENT_DEPTH = d every comment get_submission_comments
\* returns has computed depth at most d, and every comment of the list with
\* computed depth at most d that converts is returned; under
\* MAX_COMMENT_DEPTH = None every comment that converts is returned; and
\* comments_fetched grows by the number of comments returned.
C29_DepthLimit ==
    /\ [](dcall.op = "comments"
            => /\ \A i \in DOMAIN all_comments :
                    /\ all_comments[i].reddit_id \in DOMAIN comment_map \ unconverted
                    /\ all_comments[i].depth = DepthOf(all_comments[i].reddit_id)
                    /\ ~max_depth.is_none => all_comments[i].depth <= max_depth.value
               /\ \A c \in DOMAIN comment_map \ unconverted :
                    (max_depth.is_none \/ DepthOf(c) <= max_depth.value)
                       => Cardinality({i \in DOMAIN all_comments :
                                         all_comments[i].reddit_id = c}) = 1)
    /\ [][stats'.comments_fetched = stats.comments_fetched + Len(all_comments')]_vars

\* a thread of three comments under MAX_COMMENT_DEPTH = 1: the comments of
\* depth 0 and 1 are returned, the one of depth 2 is not
C29_Witness ==
    /\ dcall.op = "comments" /\ max_depth = [is_none |-> FALSE, value |-> 1]
    /\ comment_map = ChainMap(3, ItemRef) /\ unconverted = {}
    /\ Len(all_comments) = 2 /\ all_comments[2].depth = 1
    /\ stats.comments_fetched = 2

\* C30: total_requests never decreases, and a wait_if_needed call adds
\* exactly 1 to it and leaves a window whose last entry is the timestamp the
\* call appended (its check time) and whose other entries are the entries of
\* the window before the call that are less than 60 seconds older than the
\* check time, in non-decreasing order.
C30_WindowAfterWait ==
    [][/\ total_requests' >= total_requests
       /\ (total_requests' # total_requests)
             => /\ total_requests' = total_requests + 1
                /\ Len(requests') >= 1
                /\ requests'[Len(requests')] = now
                /\ SubSeq(requests', 1, Len(requests') - 1) =
                       SelectSeq(requests, LAMBDA r : now - r < WindowSecs)
                /\ \A i \in 1..(Len(requests') - 1) :
                       /\ now - requests'[i] < WindowSecs
                       /\ requests'[i] <= requests'[i + 1]]_vars

\* the third call, made when the first timestamp is 60 seconds old and the
\* second 40: the first was pruned, the window holds the second and the new
C30_Witness ==
    /\ total_requests = 3 /\ Len(requests) = 2
    /\ requests[2] - requests[1] = 2 * TickStep
    /\ issued[1] = 0 /\ requests[2] = WindowSecs

\* C31: after a load returns, the inserted counter of a collection is the
\* number of operations the store applied as an insert, those of a batch
\* that partially failed included: the store never deletes, so that is the
\* number of documents of the collection.
C31_CountersCoverApplied ==
    /\ Len(collection["posts"]) = lstats.posts_inserted
    /\ Len(collection["comments"]) = lstats.comments_inserted

\* C32: whatever way the bulk write of a batch fails, the bulk write of
\* every batch of the load is issued.
C32_EveryBatchIssued ==
    (lload.kind # "none") => lload.issued = lload.batches

\* the number of field extractions of the fetched item at position k
Attempts(k) ==
    Cardinality({j \in DOMAIN events :
                    events[j].step = "field" /\ events[j].idx = k})

\* C33: when every remote call and every sleep returns,
\* extract_posts_with_comments returns, whatever failed on the way; and when
\* it returns every fetched item has been attempted exactly once,
\* posts_processed is the number of posts returned and is at most
\* posts_fetched.
C33_ExtractionReturns ==
    /\ <>(pc = "done")
    /\ [](pc = "done"
            => /\ \A k \in 1..Len(all_submissions) : Attempts(k) = 1
               /\ \A j \in DOMAIN events : events[j].idx \in 1..Len(all_submissions)
               /\ stats.posts_fetched = Len(all_submissions)
               /\ stats.posts_processed = Len(posts_data)
               /\ stats.posts_processed <= stats.posts_fetched)

\* a call that returned after a field extraction and a comment extraction
\* failed: three items fetched, two posts returned
C33_Witness ==
    /\ pc = "done" /\ Len(all_submissions) = 3 /\ Len(posts_data) = 2
    /\ stats.posts_processed = 2 /\ stats.posts_fetched = 3
    /\ stats.errors >= 2
    /\ \E j \in DOMAIN events : events[j].step = "comments" /\ ~events[j].ok

====
